---- MODULE Spec2Model ----
(***************************************************************************)
(* A model of the peer node of WhiCu/p2pFileShare: the connection registry *)
(* (Peer.Connections, a sync.Map), the dial tasks (ConnectToPeer), the     *)
(* accept loop, registerConnection, the inbound dispatch task              *)
(* (handleConnection), the broadcast (SendMessageToPeers) and, for every   *)
(* connection, Send, Close (a sync.Once) and the heartbeat task.           *)
(*                                                                         *)
(* Every goroutine is a process with a program counter; one action is one  *)
(* atomic step of one goroutine (one access to shared state or one         *)
(* blocking call).  The network is the environment: it lets a dial fail,   *)
(* severs a socket, lets the read deadline expire and delivers lines.      *)
(***************************************************************************)
EXTENDS Naturals, Sequences, FiniteSets

\* ------------------------------------------------------------------ bounds
MaxBroadcasts == 1   \* calls of SendMessageToPeers
MaxTime == 2         \* heartbeat ticker firings (the clock advances per firing)
MaxRecv == 1         \* lines delivered by remote peers
ReadTicks == 2       \* clock ticks that make up connReadDeadline
MaxAcceptErrs == 1   \* calls of Listener.Accept that return an error
MaxDialFails == 2    \* calls of net.Dial that return an error, per goroutine
MaxLines == 2        \* lines scanned by handleConnection, taken as raw lines

\* The sockets established during a run (dialed or accepted), numbered in the
\* order they are established, and the goroutines started by ConnectToPeers.
Conns == {1, 2}
None == 0
Dialers == {"d1", "d2"}

\* --------------------------------------------------------------- addresses
\* An address "host:port" is the pair <<host, port>> (net.SplitHostPort); a
\* display name is the 1-tuple <<name>>, so that Username and Sender, which hold
\* either, have one type.
Addr(host, port) == <<host, port>>
AddrList == <<Addr("localhost", "9000"), Addr("127.0.0.1", "9000"), Addr("peerhost", "9000")>>
DialAddrs == {AddrList[i] : i \in DOMAIN AddrList}
\* The address lists ConnectToPeers is called with (duplicates included), up to
\* the order of the list: it starts one goroutine per address.
DialArgs ==
  {[d \in Dialers |-> IF d = "d1" THEN AddrList[p[1]] ELSE AddrList[p[2]]] :
     p \in {q \in (DOMAIN AddrList) \X (DOMAIN AddrList) : q[1] <= q[2]}}
InAddrs == {Addr("10.0.0.3", "50001")}
\* The remote addresses of the sockets that wait in the listener's queue.
QueueAddrs == InAddrs \cup {Addr("10.0.0.4", "50002")}
LocalAddr == Addr("localhost", "8080")
LocalUsername == <<"testPeer">>

\* The address a dialed socket reports as its RemoteAddr(): the numeric address
\* the host name resolved to.
Resolve(a) ==
  CASE a[1] = "localhost" -> Addr("127.0.0.1", a[2])
    [] a[1] = "peerhost" -> Addr("10.0.0.2", a[2])
    [] OTHER -> a

\* Peer.Store's key: "localhost:<port>" is stored as "127.0.0.1:<port>".
StoreKey(key) == IF key[1] = "localhost" THEN Addr("127.0.0.1", key[2]) ELSE key

\* The key ConnectToPeer looks up: the address as given.
LoadKey(address) == address

\* The key handleConnection deletes: conn.Addr(), the socket's RemoteAddr().
DeleteKey(remoteAddr) == remoteAddr

Keys == DialAddrs \cup InAddrs \cup QueueAddrs \cup {Resolve(a) : a \in DialAddrs}

\* ---------------------------------------------------------------- messages
Texts == {"hello"}
Message(type, sender, content) == [Type |-> type, Sender |-> sender, Content |-> content]
RemoteName == <<"bob">>
\* The lines a remote peer can send: one envelope of every kind, and a line
\* that is not JSON.
Lines == {Message(t, RemoteName, "hi") : t \in {"info", "heartbeat", "text", "log"}}
           \cup {[Type |-> "malformed", Sender |-> <<>>, Content |-> ""]}

NoLine == [Type |-> "none", Sender |-> <<>>, Content |-> ""]

\* ------------------------------------------------- the message functions
\* A Go string under NewMessage, Bytes and MessageFromBytes is a sequence of
\* pieces: a run of plain ASCII letters (as "text", "alice") or one of the
\* characters and bytes that encoding/json treats specially.
Str(word) == <<word>>
Empty == <<>>
Quote == "quote"            \* the character "
Newline == "newline"        \* the character \n
Less == "less"              \* the character <
BadByte == "byte 0xFF"      \* a byte that is not valid UTF-8
Replacement == "U+FFFD"     \* the Unicode replacement character

\* A *string argument: nil, or a pointer to a string.
Nil == <<"nil">>
PtrTo(str) == <<"ptr", str>>
NoResult == [err |-> "not called"]
NoError == "nil"

MessageStruct(type, sender, content, filename) ==
  [Type |-> type, Sender |-> sender, Content |-> content, Filename |-> filename]

\* NewMessage(typeFormat, sender, content, filename): the switch on typeFormat.
NewMessage(typeFormat, sender, content, filename) ==
  CASE typeFormat = Str("text") ->
         [msg |-> MessageStruct(Str("text"), sender, content, Empty), err |-> NoError]
    [] typeFormat = Str("file") ->
         IF filename = Nil
           THEN [msg |-> Nil, err |-> "filename is nil"]
           ELSE [msg |-> MessageStruct(Str("file"), sender, content, filename[2]),
                 err |-> NoError]
    [] OTHER -> [msg |-> Nil, err |-> "unknown type"]

\* The Message literal with these fields, as conn.go and the peer build their
\* envelopes (Message{Type: ..., Sender: ...}): a nil filename leaves the field
\* empty.
Literal(typeFormat, sender, content, filename) ==
  MessageStruct(typeFormat, sender, content, IF filename = Nil THEN Empty ELSE filename[2])

\* json.Marshal of a string, piece by piece: the quote and the newline are
\* written as escapes, < as \u003c, a byte that is not valid UTF-8 as \ufffd;
\* everything else is copied.
EscapePiece(piece) ==
  CASE piece = Quote -> "\\quote"
    [] piece = Newline -> "\\n"
    [] piece = Less -> "\\u003c"
    [] piece = BadByte -> "\\ufffd"
    [] OTHER -> piece

\* json.Unmarshal of a string, piece by piece.
UnescapePiece(piece) ==
  CASE piece = "\\quote" -> Quote
    [] piece = "\\n" -> Newline
    [] piece = "\\u003c" -> Less
    [] piece = "\\ufffd" -> Replacement
    [] OTHER -> piece

Escape(str) == [i \in DOMAIN str |-> EscapePiece(str[i])]
Unescape(str) == [i \in DOMAIN str |-> UnescapePiece(str[i])]

\* m.Bytes(): json.Marshal(m), the object's members in the order of the
\* struct's fields; "filename" has omitempty.  Marshal cannot fail for a struct
\* of strings.
Bytes(m) ==
  [line |-> <<<<"type", Escape(m.Type)>>, <<"sender", Escape(m.Sender)>>,
              <<"content", Escape(m.Content)>>>>
             \o (IF m.Filename = Empty THEN <<>> ELSE <<<<"filename", Escape(m.Filename)>>>>),
   err |-> NoError]

\* The value json.Unmarshal gives a field: that of the member with the field's
\* name, the empty string when there is none.
Member(line, name) ==
  IF \E i \in DOMAIN line : line[i][1] = name
    THEN Unescape(line[CHOOSE i \in DOMAIN line : line[i][1] = name][2])
    ELSE Empty

\* MessageFromBytes(bytes) for a line that is a JSON object.
MessageFromBytes(line) ==
  [msg |-> MessageStruct(Member(line, "type"), Member(line, "sender"),
                         Member(line, "content"), Member(line, "filename")),
   err |-> NoError]

\* The arguments tried: every kind of the protocol, a type that is none, and
\* the empty type; contents with every special piece; no filename, an empty
\* one and a name.
Kinds == {"info", "heartbeat", "text", "file", "log"}
TypeArgs == {Str(k) : k \in Kinds} \cup {Str("bogus"), Empty}
SenderArgs == {Str("alice")}
ContentArgs == {Empty, Str("hi"), <<"hi", Quote, Newline, Less>>, <<Replacement>>,
                <<"hi", BadByte>>}
FilenameArgs == {Nil, PtrTo(Empty), PtrTo(Str("notes"))}
MessageArgs ==
  [typeFormat : TypeArgs, sender : SenderArgs, content : ContentArgs,
   filename : FilenameArgs]

\* A line as scanner.Text() returns it: the text of a JSON object with its
\* members, or text that is not JSON.
JSON(m) == [object |-> TRUE, members |-> Bytes(m).line]
NotJSON == [object |-> FALSE, members |-> <<>>]

\* MessageFromString(line): json.Unmarshal fails on text that is not JSON and
\* leaves the Message zero; it accepts every object, whatever its "type".
MessageFromString(line) ==
  IF line.object
    THEN MessageFromBytes(line.members)
    ELSE [msg |-> MessageStruct(Empty, Empty, Empty, Empty), err |-> "invalid character"]

\* The raw lines a remote peer can send: the envelope of every kind, an
\* envelope of a type that is no kind, an object with empty fields, and text
\* that is not JSON.
RawLines ==
  {JSON(MessageStruct(Str(k), RemoteName, Str("hi"), Empty)) :
     k \in (Kinds \ {"file"}) \cup {"bogus"}}
    \cup {JSON(MessageStruct(Str("file"), RemoteName, Str("hi"), Str("notes"))),
           JSON(MessageStruct(Empty, Empty, Empty, Empty)),
           NotJSON}

\* The decoded Message as the dispatch sees it (msg.Type, msg.Sender,
\* msg.Content), for the one-word strings of RawLines.
Word(str) == IF str = Empty THEN "" ELSE str[1]
Envelope(m) == Message(Word(m.Type), m.Sender, Word(m.Content))

VARIABLES
  nconns,        \* sockets established so far; connection c is socket number c
  sock,          \* c -> "none" | "ok" | "severed" | "rdtimeout" | "closed"
  remote,        \* c -> the socket's RemoteAddr()
  once,          \* c -> closeOnce: "new" | "running" | "done"
  closedCh,      \* c -> the channel c.closed has been closed
  IsClosed,      \* c -> Connection.IsClosed
  teardowns,     \* c -> how often Close's body ran (close(c.closed); c.Conn.Close())
  closeReturned, \* c -> some call of c.Close() has returned
  LastActive,    \* c -> Connection.LastActive
  Username,      \* c -> Connection.Username
  Chat,          \* c -> Connection.Chat
  infoSent,      \* c -> sendInfo returned true in NewConnection
  sent,          \* c -> the calls of c.Send that returned: <<type, returned nil>>
  hbpc,          \* c -> the heartbeat goroutine
  dpc,           \* c -> the handleConnection goroutine
  spc,           \* c -> the SendMessageToPeer goroutine of the running broadcast
  attempts,      \* c -> the envelopes the last broadcast's sender wrote on c
  regKey,        \* c -> the key c was stored under (<<>> before Store)
  Connections,   \* Peer.Connections: key -> connection or None
  plog,          \* Peer.log
  dialAddr,      \* d -> the address ConnectToPeer(d) was called with
  dlpc,          \* d -> the ConnectToPeer goroutine
  dlconn,        \* d -> the connection ConnectToPeer(d) dialed (None before)
  apc,           \* the accept loop
  aconn,         \* the connection the accept loop is registering
  bpc,           \* SendMessageToPeers: "idle" | "range" | "wait"
  bcText,        \* the text of the last broadcast
  bcTodo,        \* keys Range has still to visit
  bcVisited,     \* connections Range handed to a sender in the last broadcast
  wg,            \* the WaitGroup counter
  nbcast,        \* broadcasts started
  now,           \* the clock
  nrecv,         \* lines delivered
  armedFor,      \* c -> ticks since handleConnection last set the read deadline
  quietFor,      \* c -> ticks since a line last arrived (or the task began to read)
  inWrite,       \* c -> the goroutines inside c.Conn.Write, named by what they send
  margs,         \* the arguments the message functions are called with
  mnew,          \* what NewMessage returned for them
  mline,         \* what Bytes returned for the Message made of them
  mback,         \* what MessageFromBytes returned for that line
  backlog,       \* remote addresses of the sockets waiting in the listener's queue
  acceptErrs,    \* calls of Listener.Accept that returned an error
  accepted,      \* remote address of the socket Accept returned, until NewConnection
  dialFails,     \* d -> calls of net.Dial that returned an error
  dline,         \* c -> the envelope handleConnection decoded and is routing
  chatRead,      \* c -> the value of c.Chat that the append of that routing read
  sendRead,      \* c -> the value of c.Chat that the append of a Send read
  scanned        \* c -> the raw lines scanner.Scan() has returned, in order

connVars == <<sock, remote, once, closedCh, IsClosed, teardowns, closeReturned,
              LastActive, Username, Chat, infoSent, sent>>
closeVars == <<once, closedCh, IsClosed, teardowns, closeReturned>>
taskVars == <<hbpc, dpc, spc>>
dialVars == <<dialAddr, dlpc, dlconn>>
acceptVars == <<apc, aconn>>
bcVars == <<bpc, bcText, bcTodo, bcVisited, wg, nbcast, attempts>>
readVars == <<armedFor, quietFor>>
writeVars == <<inWrite>>
msgVars == <<margs, mnew, mline, mback>>
listenVars == <<backlog, acceptErrs, accepted>>
retryVars == <<dialFails>>
routeVars == <<dline, chatRead, sendRead, scanned>>
auxVars == <<readVars, writeVars, msgVars, listenVars, retryVars, routeVars>>
vars == <<nconns, connVars, taskVars, regKey, Connections, plog, dialVars,
          acceptVars, bcVars, now, nrecv, auxVars>>

NodeInit ==
  /\ nconns = 0
  /\ sock = [c \in Conns |-> "none"]
  /\ remote = [c \in Conns |-> <<>>]
  /\ once = [c \in Conns |-> "new"]
  /\ closedCh = [c \in Conns |-> FALSE]
  /\ IsClosed = [c \in Conns |-> FALSE]
  /\ teardowns = [c \in Conns |-> 0]
  /\ closeReturned = [c \in Conns |-> FALSE]
  /\ LastActive = [c \in Conns |-> 0]
  /\ Username = [c \in Conns |-> <<>>]
  /\ Chat = [c \in Conns |-> <<>>]
  /\ infoSent = [c \in Conns |-> FALSE]
  /\ sent = [c \in Conns |-> <<>>]
  /\ hbpc = [c \in Conns |-> "none"]
  /\ dpc = [c \in Conns |-> "none"]
  /\ spc = [c \in Conns |-> "none"]
  /\ attempts = [c \in Conns |-> <<>>]
  /\ regKey = [c \in Conns |-> <<>>]
  /\ Connections = [k \in Keys |-> None]
  /\ plog = <<>>
  /\ dialAddr \in DialArgs
  /\ dlpc = [d \in Dialers |-> "check"]
  /\ dlconn = [d \in Dialers |-> None]
  /\ apc = "accept"
  /\ aconn = None
  /\ bpc = "idle"
  /\ bcText = ""
  /\ bcTodo = {}
  /\ bcVisited = {}
  /\ wg = 0
  /\ nbcast = 0
  /\ now = 0
  /\ nrecv = 0
  /\ armedFor = [c \in Conns |-> 0]
  /\ quietFor = [c \in Conns |-> 0]
  /\ inWrite = [c \in Conns |-> {}]
  /\ backlog = {}
  /\ acceptErrs = 0
  /\ accepted = <<>>
  /\ dialFails = [d \in Dialers |-> 0]
  /\ dline = [c \in Conns |-> NoLine]
  /\ chatRead = [c \in Conns |-> <<>>]
  /\ sendRead = [c \in Conns |-> <<>>]
  /\ scanned = [c \in Conns |-> <<>>]

\* The node after NewTCPPeer and ConnectToPeers; no message function is under
\* test.
Init ==
  /\ NodeInit
  /\ margs = NoResult
  /\ mnew = NoResult
  /\ mline = NoResult
  /\ mback = NoResult

\* ------------------------------------------------------------------- Close
\* Connection.Close is c.closeOnce.Do(body).  sync.Once: a caller that finds
\* the Once done returns at once; the first caller runs the body; a caller that
\* arrives while the body runs blocks until it has finished.

\* (A Close without the Once: `if !c.IsClosed { ... }`, which lets every caller
\* that finds the flag still false run the body.)
OnceEntersUnguarded(c) ==
  /\ ~IsClosed[c]
  /\ once' = [once EXCEPT ![c] = "running"]
  /\ UNCHANGED <<closedCh, IsClosed, teardowns, closeReturned, sock>>

\* The caller is the first: it takes the Once and goes on to run the body.
OnceEnters(c) ==
  /\ once[c] = "new"
  /\ once' = [once EXCEPT ![c] = "running"]
  /\ UNCHANGED <<closedCh, IsClosed, teardowns, closeReturned, sock>>

\* The Once is done: Close returns without running the body.
OnceSkips(c) ==
  /\ once[c] = "done"
  /\ closeReturned' = [closeReturned EXCEPT ![c] = TRUE]
  /\ UNCHANGED <<once, closedCh, IsClosed, teardowns, sock>>

\* (A Close that cancels the heartbeat and sets the flag but leaves the socket
\* open.)
CloseBodyKeepsSocket(c) ==
  /\ closedCh' = [closedCh EXCEPT ![c] = TRUE]
  /\ UNCHANGED sock
  /\ IsClosed' = [IsClosed EXCEPT ![c] = TRUE]
  /\ teardowns' = [teardowns EXCEPT ![c] = @ + 1]
  /\ once' = [once EXCEPT ![c] = "done"]
  /\ closeReturned' = [closeReturned EXCEPT ![c] = TRUE]

\* The body of Close, and the return of the call that ran it.
CloseBody(c) ==
  /\ closedCh' = [closedCh EXCEPT ![c] = TRUE]
  /\ sock' = [sock EXCEPT ![c] = "closed"]
  /\ IsClosed' = [IsClosed EXCEPT ![c] = TRUE]
  /\ teardowns' = [teardowns EXCEPT ![c] = @ + 1]
  /\ once' = [once EXCEPT ![c] = "done"]
  /\ closeReturned' = [closeReturned EXCEPT ![c] = TRUE]

\* A write on the socket succeeds while the socket is neither closed nor broken.
WriteOk(c) == sock[c] \in {"ok", "rdtimeout"}

\* ----------------------------------------------------------- NewConnection
\* NewConnection(conn, info) for the socket number c with RemoteAddr ra: the
\* fields, sendInfo (infoOk: the write succeeded), Close when it failed, and
\* `go c.heartbeat()` in either case.  c is not shared before NewConnection
\* returns, so Close runs its body here.
StartsHeartbeat(infoOk) == TRUE

NewConnection(c, ra, infoOk) ==
  /\ nconns' = c
  /\ remote' = [remote EXCEPT ![c] = ra]
  /\ Username' = [Username EXCEPT ![c] = ra]
  /\ LastActive' = [LastActive EXCEPT ![c] = now]
  /\ infoSent' = [infoSent EXCEPT ![c] = infoOk]
  /\ UNCHANGED <<Chat, sent>>
  /\ sock' = [sock EXCEPT ![c] = IF infoOk THEN "ok" ELSE "closed"]
  /\ once' = [once EXCEPT ![c] = IF infoOk THEN "new" ELSE "done"]
  /\ closedCh' = [closedCh EXCEPT ![c] = ~infoOk]
  /\ IsClosed' = [IsClosed EXCEPT ![c] = ~infoOk]
  /\ teardowns' = [teardowns EXCEPT ![c] = IF infoOk THEN 0 ELSE 1]
  /\ closeReturned' = [closeReturned EXCEPT ![c] = ~infoOk]
  /\ hbpc' = [hbpc EXCEPT ![c] = IF StartsHeartbeat(infoOk) THEN "wait" ELSE "none"]

\* ------------------------------------------------------ registerConnection
\* The second half of registerConnection(address, conn): p.Store(address, c)
\* and `go p.handleConnection(c)`.  Store is sync.Map.Store: it overwrites.
Registers(c) == TRUE

Store(key, c) ==
  Connections' = [Connections EXCEPT ![StoreKey(key)] = c]

RegisterStore(address, c) ==
  /\ IF Registers(c)
       THEN /\ Store(address, c)
            /\ regKey' = [regKey EXCEPT ![c] = StoreKey(address)]
            /\ dpc' = [dpc EXCEPT ![c] = "read"]
       ELSE UNCHANGED <<Connections, regKey, dpc>>

\* ----------------------------------------------------------- ConnectToPeer
\* p.Connections.Load(address): found, return; else go on to dial.
DialerCheck(d) ==
  /\ dlpc[d] = "check"
  /\ dlpc' = [dlpc EXCEPT ![d] =
               IF Connections[LoadKey(dialAddr[d])] # None THEN "done" ELSE "dial"]
  /\ UNCHANGED <<nconns, connVars, taskVars, regKey, Connections, plog, dialAddr,
                 dlconn, acceptVars, bcVars, now, nrecv, auxVars>>

\* net.Dial failed: sleep five seconds and go round the loop.
DialerDialFail(d) ==
  /\ dlpc[d] = "dial"
  /\ dlpc' = [dlpc EXCEPT ![d] = "check"]
  /\ UNCHANGED <<nconns, connVars, taskVars, regKey, Connections, plog, dialAddr,
                 dlconn, acceptVars, bcVars, now, nrecv, auxVars>>

\* The same in two steps: net.Dial returns an error and the goroutine sleeps;
\* the sleep ends and the loop starts over.
DialerDialErrGivesUp(d) ==
  /\ dlpc[d] = "dial"
  /\ dialFails[d] < MaxDialFails
  /\ dialFails' = [dialFails EXCEPT ![d] = @ + 1]
  /\ dlpc' = [dlpc EXCEPT ![d] = "done"]
  /\ UNCHANGED <<nconns, connVars, taskVars, regKey, Connections, plog, dialAddr,
                 dlconn, acceptVars, bcVars, now, nrecv, readVars, writeVars, msgVars,
                 listenVars, routeVars>>

DialerDialErr(d) ==
  /\ dlpc[d] = "dial"
  /\ dialFails[d] < MaxDialFails
  /\ dialFails' = [dialFails EXCEPT ![d] = @ + 1]
  /\ dlpc' = [dlpc EXCEPT ![d] = "sleep"]
  /\ UNCHANGED <<nconns, connVars, taskVars, regKey, Connections, plog, dialAddr,
                 dlconn, acceptVars, bcVars, now, nrecv, readVars, writeVars, msgVars,
                 listenVars, routeVars>>

DialerWake(d) ==
  /\ dlpc[d] = "sleep"
  /\ dlpc' = [dlpc EXCEPT ![d] = "check"]
  /\ UNCHANGED <<nconns, connVars, taskVars, regKey, Connections, plog, dialAddr,
                 dlconn, acceptVars, bcVars, now, nrecv, auxVars>>

\* net.Dial succeeded; registerConnection runs NewConnection on the socket.
DialerDial(d, CS) ==
  /\ dlpc[d] = "dial"
  /\ nconns + 1 \in CS
  /\ \E infoOk \in BOOLEAN :
       NewConnection(nconns + 1, Resolve(dialAddr[d]), infoOk)
  /\ dlpc' = [dlpc EXCEPT ![d] = "store"]
  /\ dlconn' = [dlconn EXCEPT ![d] = nconns + 1]
  /\ UNCHANGED <<dpc, spc, regKey, Connections, plog, dialAddr, acceptVars,
                 bcVars, now, nrecv, auxVars>>

DialerStore(d) ==
  /\ dlpc[d] = "store"
  /\ RegisterStore(dialAddr[d], dlconn[d])
  /\ dlpc' = [dlpc EXCEPT ![d] = "done"]
  /\ UNCHANGED <<nconns, connVars, hbpc, spc, plog, dialAddr, dlconn, acceptVars,
                 bcVars, now, nrecv, auxVars>>

\* ------------------------------------------------ acceptIncomingConnections
\* Listener.Accept returned a socket; registerConnection is called in the loop
\* itself.  A remote address is free for a new socket once no working socket
\* has it.
AddrFree(ra) == \A c \in Conns : remote[c] = ra => sock[c] \notin {"ok", "rdtimeout"}

Accept(CS) ==
  /\ apc = "accept"
  /\ nconns + 1 \in CS
  /\ \E ra \in InAddrs, infoOk \in BOOLEAN :
       /\ AddrFree(ra)
       /\ NewConnection(nconns + 1, ra, infoOk)
  /\ apc' = "store"
  /\ aconn' = nconns + 1
  /\ UNCHANGED <<dpc, spc, regKey, Connections, plog, dialVars, bcVars, now, nrecv, auxVars>>

AcceptStore ==
  /\ apc = "store"
  /\ RegisterStore(remote[aconn], aconn)
  /\ apc' = "accept"
  /\ aconn' = None
  /\ UNCHANGED <<nconns, connVars, hbpc, spc, plog, dialVars, bcVars, now, nrecv, auxVars>>

\* A peer connects: its socket waits in the listener's queue until Accept
\* returns it.
QueueFree(ra) == ra \notin backlog /\ ra # accepted /\ AddrFree(ra)

Arrive(ra) ==
  /\ QueueFree(ra)
  /\ nconns + Cardinality(backlog) + (IF accepted = <<>> THEN 0 ELSE 1) < Cardinality(Conns)
  /\ backlog' = backlog \cup {ra}
  /\ UNCHANGED <<nconns, connVars, taskVars, regKey, Connections, plog, dialVars,
                 acceptVars, bcVars, now, nrecv, readVars, writeVars, msgVars, retryVars, routeVars,
                 acceptErrs, accepted>>

\* Listener.Accept returned an error: it is logged and the loop continues.
AcceptErr ==
  /\ apc = "accept"
  /\ acceptErrs < MaxAcceptErrs
  /\ acceptErrs' = acceptErrs + 1
  /\ apc' = "accept"
  /\ UNCHANGED <<nconns, connVars, taskVars, regKey, Connections, plog, dialVars,
                 aconn, bcVars, now, nrecv, readVars, writeVars, msgVars, retryVars, routeVars,
                 backlog, accepted>>

\* Listener.Accept returned a socket of the queue; the loop calls
\* registerConnection, which calls NewConnection, whose sendInfo writes to the
\* socket.
AcceptTake ==
  /\ apc = "accept"
  /\ nconns + 1 \in Conns
  /\ \E ra \in backlog :
       /\ backlog' = backlog \ {ra}
       /\ accepted' = ra
  /\ apc' = "register"
  /\ UNCHANGED <<nconns, connVars, taskVars, regKey, Connections, plog, dialVars,
                 aconn, bcVars, now, nrecv, readVars, writeVars, msgVars, retryVars, routeVars, acceptErrs>>

\* sendInfo's Write returned, and NewConnection with it.
AcceptRegister ==
  /\ apc = "register"
  /\ \E infoOk \in BOOLEAN : NewConnection(nconns + 1, accepted, infoOk)
  /\ apc' = "store"
  /\ aconn' = nconns + 1
  /\ accepted' = <<>>
  /\ UNCHANGED <<dpc, spc, regKey, Connections, plog, dialVars, bcVars, now, nrecv,
                 readVars, writeVars, msgVars, retryVars, routeVars, backlog, acceptErrs>>

\* --------------------------------------------------------------- heartbeat
\* A call of c.Send returned: its envelope's type and whether it returned nil.
Returned(type, ok) == <<type, ok>>

\* c.Conn.Write of the goroutine that sends a message of this type returns.
WriteReturns(c, type) == inWrite' = [inWrite EXCEPT ![c] = @ \ {type}]

\* <-c.closed: the task returns.
HbStop(c) ==
  /\ hbpc[c] = "wait"
  /\ "heartbeat" \notin inWrite[c]
  /\ closedCh[c]
  /\ hbpc' = [hbpc EXCEPT ![c] = "done"]
  /\ UNCHANGED <<nconns, connVars, dpc, spc, regKey, Connections, plog, dialVars,
                 acceptVars, bcVars, now, nrecv, auxVars>>

\* (A heartbeat that sets LastActive before it looks at Send's error.)
HbStampAlways(c, written, time) == time

\* What the heartbeat task does to LastActive after c.Send(msg): sets it to the
\* time when Send returned nil.
HbStamp(c, written, time) == IF written THEN time ELSE LastActive[c]

\* SetWriteDeadline fails on a socket that is closed when the ticker fires.
DeadlineFails(c) == sock[c] = "closed" /\ "heartbeat" \notin inWrite[c]

\* Where the task goes after SetWriteDeadline and Send: when SetWriteDeadline
\* fails the task calls Close and returns ("close2"); a failed write makes Send
\* call Close ("close"), after which the task calls it again.
HbAfterSend(c) ==
  IF DeadlineFails(c) THEN "close2" ELSE IF WriteOk(c) THEN "wait" ELSE "close"

\* <-ticker.C: the ticker fired (time has passed); SetWriteDeadline,
\* c.Send(heartbeat) and, when it returned nil, c.LastActive = time.Now().
HbBeat(c) ==
  /\ hbpc[c] = "wait"
  /\ now < MaxTime
  /\ now' = now + 1
  /\ hbpc' = [hbpc EXCEPT ![c] = HbAfterSend(c)]
  /\ LastActive' = [LastActive EXCEPT ![c] = HbStamp(c, WriteOk(c), now')]
  /\ sent' = [sent EXCEPT ![c] =
               IF WriteOk(c) THEN Append(@, Returned("heartbeat", TRUE)) ELSE @]
  /\ WriteReturns(c, "heartbeat")
  /\ UNCHANGED <<nconns, sock, remote, closeVars, Username, Chat, infoSent, dpc, spc,
                 regKey, Connections, plog, dialVars, acceptVars, bcVars, nrecv, readVars,
                 msgVars, retryVars, routeVars, listenVars>>

\* Entry of a Close call of the task: "close" is the call inside Send, "close2"
\* the task's own call before it returns.  When the call inside Send returns,
\* Send returns its error.
HbClose(c) ==
  /\ hbpc[c] \in {"close", "close2"}
  /\ \/ /\ OnceSkips(c)
        /\ hbpc' = [hbpc EXCEPT ![c] = IF @ = "close" THEN "close2" ELSE "done"]
        /\ sent' = [sent EXCEPT ![c] =
                     IF hbpc[c] = "close" THEN Append(@, Returned("heartbeat", FALSE)) ELSE @]
     \/ /\ OnceEnters(c)
        /\ hbpc' = [hbpc EXCEPT ![c] = IF @ = "close" THEN "body" ELSE "body2"]
        /\ UNCHANGED sent
  /\ UNCHANGED <<nconns, remote, LastActive, Username, Chat, infoSent, dpc, spc, regKey,
                 Connections, plog, dialVars, acceptVars, bcVars, now, nrecv, auxVars>>

HbCloseBody(c) ==
  /\ hbpc[c] \in {"body", "body2"}
  /\ CloseBody(c)
  /\ hbpc' = [hbpc EXCEPT ![c] = IF @ = "body" THEN "close2" ELSE "done"]
  /\ sent' = [sent EXCEPT ![c] =
               IF hbpc[c] = "body" THEN Append(@, Returned("heartbeat", FALSE)) ELSE @]
  /\ UNCHANGED <<nconns, remote, LastActive, Username, Chat, infoSent, dpc, spc, regKey,
                 Connections, plog, dialVars, acceptVars, bcVars, now, nrecv, auxVars>>

\* -------------------------------------------------------- handleConnection
\* The routing of one decoded envelope (the switch on msg.Type).
RouteUsername(c, msg) == IF msg.Type = "info" THEN msg.Sender ELSE Username[c]
RouteChat(c, msg) == IF msg.Type = "text" THEN Append(Chat[c], msg) ELSE Chat[c]
RouteLog(msg) == IF msg.Type = "log" THEN Append(plog, msg) ELSE plog

\* (A loop that sets the read deadline once, before its first read.)
RearmOnce(c) ==
  /\ quietFor' = [quietFor EXCEPT ![c] = 0]
  /\ UNCHANGED armedFor

\* A line has arrived and the loop comes round to
\* conn.Conn.SetReadDeadline(time.Now().Add(connReadDeadline)) again.
Rearm(c) ==
  /\ quietFor' = [quietFor EXCEPT ![c] = 0]
  /\ armedFor' = [armedFor EXCEPT ![c] = 0]

\* scanner.Scan() returned a line; MessageFromString fails on a line that is
\* not JSON and the loop continues.
DispatchRecv(c) ==
  /\ dpc[c] = "read"
  /\ sock[c] = "ok"
  /\ nrecv < MaxRecv
  /\ nrecv' = nrecv + 1
  /\ \E line \in Lines :
       IF line.Type = "malformed"
         THEN UNCHANGED <<Username, Chat, plog>>
         ELSE /\ Username' = [Username EXCEPT ![c] = RouteUsername(c, line)]
              /\ Chat' = [Chat EXCEPT ![c] = RouteChat(c, line)]
              /\ plog' = RouteLog(line)
  /\ Rearm(c)
  /\ UNCHANGED <<nconns, sock, remote, closeVars, LastActive, infoSent, sent, taskVars, regKey,
                 Connections, dialVars, acceptVars, bcVars, now, writeVars, msgVars, retryVars, routeVars, listenVars>>

\* scanner.Scan() returned false: the socket is closed or broken, or the read
\* deadline expired.  The deferred function starts with conn.Close().
DispatchReadFail(c) ==
  /\ dpc[c] = "read"
  /\ sock[c] \in {"severed", "rdtimeout", "closed"}
  /\ dpc' = [dpc EXCEPT ![c] = "close"]
  /\ UNCHANGED <<nconns, connVars, hbpc, spc, regKey, Connections, plog, dialVars,
                 acceptVars, bcVars, now, nrecv, auxVars>>

DispatchClose(c) ==
  /\ dpc[c] = "close"
  /\ \/ /\ OnceSkips(c)
        /\ dpc' = [dpc EXCEPT ![c] = "delete"]
     \/ /\ OnceEnters(c)
        /\ dpc' = [dpc EXCEPT ![c] = "body"]
  /\ UNCHANGED <<nconns, remote, LastActive, Username, Chat, infoSent, sent, hbpc, spc, regKey,
                 Connections, plog, dialVars, acceptVars, bcVars, now, nrecv, auxVars>>

DispatchCloseBody(c) ==
  /\ dpc[c] = "body"
  /\ CloseBody(c)
  /\ dpc' = [dpc EXCEPT ![c] = "delete"]
  /\ UNCHANGED <<nconns, remote, LastActive, Username, Chat, infoSent, sent, hbpc, spc, regKey,
                 Connections, plog, dialVars, acceptVars, bcVars, now, nrecv, auxVars>>

\* p.Connections.Delete(conn.Addr()), the end of the deferred function.
DispatchDelete(c) ==
  /\ dpc[c] = "delete"
  /\ Connections' = [Connections EXCEPT ![DeleteKey(remote[c])] = None]
  /\ dpc' = [dpc EXCEPT ![c] = "done"]
  /\ UNCHANGED <<nconns, connVars, hbpc, spc, regKey, plog, dialVars, acceptVars,
                 bcVars, now, nrecv, auxVars>>

\* ------------------------------------------------------ SendMessageToPeers
\* Range starts: sync.Map.Range walks the keys present now and loads each
\* key's value when it comes to it.
BroadcastBegin ==
  /\ bpc = "idle"
  /\ nbcast < MaxBroadcasts
  /\ \E text \in Texts : bcText' = text
  /\ bpc' = "range"
  /\ bcTodo' = {k \in Keys : Connections[k] # None}
  /\ nbcast' = nbcast + 1
  /\ bcVisited' = {}
  /\ attempts' = [c \in Conns |-> <<>>]
  /\ UNCHANGED <<nconns, connVars, taskVars, regKey, Connections, plog, dialVars,
                 acceptVars, wg, now, nrecv, auxVars>>

\* Range's callback for one key: wg.Add(1); go p.SendMessageToPeer(value, ...).
BroadcastVisit(k) ==
  /\ bpc = "range"
  /\ k \in bcTodo
  /\ bcTodo' = bcTodo \ {k}
  /\ IF Connections[k] # None
       THEN /\ wg' = wg + 1
            /\ spc' = [spc EXCEPT ![Connections[k]] = "send"]
            /\ bcVisited' = bcVisited \cup {Connections[k]}
       ELSE UNCHANGED <<wg, spc, bcVisited>>
  /\ UNCHANGED <<nconns, connVars, hbpc, dpc, regKey, Connections, plog, dialVars,
                 acceptVars, bpc, bcText, nbcast, attempts, now, nrecv, auxVars>>

\* (A broadcast that does not wait for its senders.)
WaitReturnsAtOnce == TRUE

\* wg.Wait() returns.
WaitReturns == wg = 0

BroadcastEnd ==
  /\ bpc = "range"
  /\ bcTodo = {}
  /\ WaitReturns
  /\ bpc' = "idle"
  /\ UNCHANGED <<nconns, connVars, taskVars, regKey, Connections, plog, dialVars,
                 acceptVars, bcText, bcTodo, bcVisited, attempts, wg, nbcast, now, nrecv, auxVars>>

\* The envelope SendMessageToPeer builds.
TextMessage(text) == Message("text", LocalAddr, text)

\* (A Send that appends to Chat before it looks at the write's error.)
SendChatAlways(c, msg, written) ==
  IF msg.Type = "text" THEN Append(Chat[c], msg) ELSE Chat[c]

\* What Send does to Chat after the write: appends a text envelope when the
\* write succeeded (c.Save is always true).
SendChat(c, msg, written) ==
  IF written /\ msg.Type = "text" THEN Append(Chat[c], msg) ELSE Chat[c]

\* conn.Send(msg) has returned in SendMessageToPeer, which logs an error and is
\* done (wg.Done()).
SenderReturns(c, ok) ==
  /\ attempts' = [attempts EXCEPT ![c] = Append(@, [msg |-> TextMessage(bcText), ok |-> ok])]
  /\ sent' = [sent EXCEPT ![c] = Append(@, Returned("text", ok))]
  /\ spc' = [spc EXCEPT ![c] = "none"]
  /\ wg' = wg - 1

\* conn.Send(msg) in SendMessageToPeer: the write.  On success the envelope is
\* appended to Chat and Send returns nil; on failure Send goes on to c.Close().
SenderSend(c) ==
  /\ spc[c] = "send"
  /\ Chat' = [Chat EXCEPT ![c] = SendChat(c, TextMessage(bcText), WriteOk(c))]
  /\ IF WriteOk(c)
       THEN SenderReturns(c, TRUE)
       ELSE /\ spc' = [spc EXCEPT ![c] = "close"]
            /\ UNCHANGED <<attempts, sent, wg>>
  /\ WriteReturns(c, "text")
  /\ UNCHANGED <<nconns, sock, remote, closeVars, LastActive, Username, infoSent, hbpc,
                 dpc, regKey, Connections, plog, dialVars, acceptVars, bpc, bcText,
                 bcTodo, bcVisited, nbcast, now, nrecv, readVars, msgVars, retryVars, routeVars, listenVars>>

\* Send's c.Close(); when it has returned, Send returns the error.
SenderClose(c) ==
  /\ spc[c] = "close"
  /\ \/ /\ OnceSkips(c)
        /\ SenderReturns(c, FALSE)
     \/ /\ OnceEnters(c)
        /\ spc' = [spc EXCEPT ![c] = "body"]
        /\ UNCHANGED <<attempts, sent, wg>>
  /\ UNCHANGED <<nconns, remote, LastActive, Username, Chat, infoSent, hbpc, dpc, regKey,
                 Connections, plog, dialVars, acceptVars, bpc, bcText, bcTodo,
                 bcVisited, nbcast, now, nrecv, auxVars>>

SenderCloseBody(c) ==
  /\ spc[c] = "body"
  /\ CloseBody(c)
  /\ SenderReturns(c, FALSE)
  /\ UNCHANGED <<nconns, remote, LastActive, Username, Chat, infoSent, hbpc, dpc, regKey,
                 Connections, plog, dialVars, acceptVars, bpc, bcText, bcTodo,
                 bcVisited, nbcast, now, nrecv, auxVars>>

\* ------------------------------------------------------------- the network
\* The remote peer dies or the link breaks: reads and writes fail from now on.
Sever(c) ==
  /\ sock[c] \in {"ok", "rdtimeout"}
  /\ sock' = [sock EXCEPT ![c] = "severed"]
  /\ UNCHANGED <<nconns, remote, closeVars, LastActive, Username, Chat, infoSent, sent, taskVars,
                 regKey, Connections, plog, dialVars, acceptVars, bcVars, now, nrecv, auxVars>>

\* No line arrived for connReadDeadline while handleConnection was reading.
ReadDeadline(c) ==
  /\ sock[c] = "ok"
  /\ dpc[c] = "read"
  /\ sock' = [sock EXCEPT ![c] = "rdtimeout"]
  /\ UNCHANGED <<nconns, remote, closeVars, LastActive, Username, Chat, infoSent, sent, taskVars,
                 regKey, Connections, plog, dialVars, acceptVars, bcVars, now, nrecv, auxVars>>

\* Connection.Send step by step: the goroutine calls c.Conn.Write (HbWrite,
\* SenderWrite), and the call returns (HbWritten, SenderWritten), which is the
\* rest of HbBeat and of SenderSend.  Send takes no lock.
WriteCalled(c, type) ==
  /\ type \notin inWrite[c]
  /\ inWrite' = [inWrite EXCEPT ![c] = @ \cup {type}]
  /\ UNCHANGED <<nconns, connVars, taskVars, regKey, Connections, plog, dialVars,
                 acceptVars, bcVars, now, nrecv, readVars, msgVars, retryVars, routeVars, listenVars>>

HbWrite(c) ==
  /\ hbpc[c] = "wait"
  /\ now < MaxTime
  /\ ~DeadlineFails(c)
  /\ WriteCalled(c, "heartbeat")

HbDeadlineFails(c) ==
  /\ DeadlineFails(c)
  /\ HbBeat(c)

HbWritten(c) ==
  /\ "heartbeat" \in inWrite[c]
  /\ HbBeat(c)

SenderWrite(c) ==
  /\ spc[c] = "send"
  /\ WriteCalled(c, "text")

SenderWritten(c) ==
  /\ "text" \in inWrite[c]
  /\ SenderSend(c)

\* Time passes while handleConnection is blocked in scanner.Scan(): one tick is
\* connReadDeadline / ReadTicks.  The clocks stop at the deadline, when the read
\* returns.
Reading(c) == dpc[c] = "read" /\ sock[c] = "ok"

Tick ==
  /\ \E c \in Conns : Reading(c)
  /\ \A c \in Conns : Reading(c) => armedFor[c] < ReadTicks
  /\ armedFor' = [c \in Conns |-> IF Reading(c) THEN armedFor[c] + 1 ELSE armedFor[c]]
  /\ quietFor' = [c \in Conns |-> IF Reading(c) THEN quietFor[c] + 1 ELSE quietFor[c]]
  /\ UNCHANGED <<nconns, connVars, taskVars, regKey, Connections, plog, dialVars,
                 acceptVars, bcVars, now, nrecv, writeVars, msgVars, retryVars, routeVars, listenVars>>

\* The read deadline set connReadDeadline ago is reached: Scan returns false.
ReadExpire(c) ==
  /\ armedFor[c] >= ReadTicks
  /\ ReadDeadline(c)

\* ------------------------------------- handleConnection, a line in two steps
\* scanner.Scan() returned a line and MessageFromString decoded it; for a text
\* envelope conn.AddMessages evaluates append(c.Chat, ...): it reads c.Chat.
\* Nothing orders this with the AddMessages of a Send on the same connection.
DispatchDecode(c) ==
  /\ dpc[c] = "read"
  /\ sock[c] = "ok"
  /\ nrecv < MaxRecv
  /\ nrecv' = nrecv + 1
  /\ \E line \in Lines :
       /\ line.Type # "malformed"
       /\ dline' = [dline EXCEPT ![c] = line]
  /\ chatRead' = [chatRead EXCEPT ![c] = Chat[c]]
  /\ dpc' = [dpc EXCEPT ![c] = "route"]
  /\ UNCHANGED <<nconns, connVars, hbpc, spc, regKey, Connections, plog, dialVars,
                 acceptVars, bcVars, now, readVars, writeVars, msgVars, listenVars,
                 retryVars, sendRead, scanned>>

\* What the assignment c.Chat = append(...) of that AddMessages stores.
RouteChatStore(c, msg) ==
  IF msg.Type = "text" THEN Append(chatRead[c], msg) ELSE Chat[c]

\* The switch on msg.Type has run, with the assignment to c.Chat; the loop
\* comes round to SetReadDeadline.
DispatchRoute(c) ==
  /\ dpc[c] = "route"
  /\ Username' = [Username EXCEPT ![c] = RouteUsername(c, dline[c])]
  /\ Chat' = [Chat EXCEPT ![c] = RouteChatStore(c, dline[c])]
  /\ plog' = RouteLog(dline[c])
  /\ dline' = [dline EXCEPT ![c] = NoLine]
  /\ chatRead' = [chatRead EXCEPT ![c] = <<>>]
  /\ dpc' = [dpc EXCEPT ![c] = "read"]
  /\ Rearm(c)
  /\ UNCHANGED <<nconns, sock, remote, closeVars, LastActive, infoSent, sent, hbpc, spc,
                 regKey, Connections, dialVars, acceptVars, bcVars, now, nrecv, writeVars,
                 msgVars, listenVars, retryVars, sendRead, scanned>>

\* ------------------------------------ handleConnection, from the raw line on
\* (A loop that ends at a line it cannot decode.)
AfterDecodeErrorBreaks == "close"

\* MessageFromString returned an error: it is logged, and `continue`.
AfterDecodeError == "read"

\* scanner.Scan() returned a raw line and MessageFromString ran on it: on an
\* error the loop continues, otherwise the Message goes to the switch.
DispatchScanLine(c) ==
  /\ dpc[c] = "read"
  /\ sock[c] = "ok"
  /\ nrecv < MaxLines
  /\ nrecv' = nrecv + 1
  /\ \E line \in RawLines :
       /\ scanned' = [scanned EXCEPT ![c] = Append(@, line)]
       /\ IF MessageFromString(line).err # NoError
            THEN /\ dpc' = [dpc EXCEPT ![c] = AfterDecodeError]
                 /\ UNCHANGED <<dline, chatRead>>
            ELSE /\ dline' = [dline EXCEPT ![c] = Envelope(MessageFromString(line).msg)]
                 /\ chatRead' = [chatRead EXCEPT ![c] = Chat[c]]
                 /\ dpc' = [dpc EXCEPT ![c] = "route"]
  /\ UNCHANGED <<nconns, connVars, hbpc, spc, regKey, Connections, plog, dialVars,
                 acceptVars, bcVars, now, readVars, writeVars, msgVars, listenVars,
                 retryVars, sendRead>>

\* ------------------------------------------------- Send, the append in two steps
\* c.Conn.Write returned nil in the Send of SendMessageToPeer; msg.Type is
\* "text" and c.Save is true, so c.AddMessages(msg) evaluates
\* append(c.Chat, msg): it reads c.Chat.
SenderSentOk(c) ==
  /\ spc[c] = "send"
  /\ WriteOk(c)
  /\ spc' = [spc EXCEPT ![c] = "append"]
  /\ sendRead' = [sendRead EXCEPT ![c] = Chat[c]]
  /\ UNCHANGED <<nconns, connVars, hbpc, dpc, regKey, Connections, plog, dialVars,
                 acceptVars, bcVars, now, nrecv, readVars, writeVars, msgVars, listenVars,
                 retryVars, dline, chatRead, scanned>>

\* c.Conn.Write returned an error: Send goes on to c.Close().
SenderSendFails(c) ==
  /\ ~WriteOk(c)
  /\ SenderSend(c)

\* The assignment c.Chat = append(...) of that AddMessages; Send returns nil.
SenderAppend(c) ==
  /\ spc[c] = "append"
  /\ Chat' = [Chat EXCEPT ![c] = Append(sendRead[c], TextMessage(bcText))]
  /\ sendRead' = [sendRead EXCEPT ![c] = <<>>]
  /\ SenderReturns(c, TRUE)
  /\ UNCHANGED <<nconns, sock, remote, closeVars, LastActive, Username, infoSent, hbpc,
                 dpc, regKey, Connections, plog, dialVars, acceptVars, bpc, bcText,
                 bcTodo, bcVisited, nbcast, now, nrecv, readVars, writeVars, msgVars,
                 listenVars, retryVars, dline, chatRead, scanned>>

\* ------------------------------------------------ calls of the message functions
NodeIdle ==
  UNCHANGED <<nconns, connVars, taskVars, regKey, Connections, plog, dialVars,
              acceptVars, bcVars, now, nrecv, readVars, writeVars, listenVars,
              retryVars, routeVars>>

CallNewMessage ==
  /\ mnew = NoResult
  /\ mnew' = NewMessage(margs.typeFormat, margs.sender, margs.content, margs.filename)
  /\ UNCHANGED <<margs, mline, mback>>
  /\ NodeIdle

CallBytes ==
  /\ mline = NoResult
  /\ mline' = Bytes(Literal(margs.typeFormat, margs.sender, margs.content, margs.filename))
  /\ UNCHANGED <<margs, mnew, mback>>
  /\ NodeIdle

CallMessageFromBytes ==
  /\ mline # NoResult
  /\ mback = NoResult
  /\ mback' = MessageFromBytes(mline.line)
  /\ UNCHANGED <<margs, mnew, mline>>
  /\ NodeIdle

\* ---------------------------------------------------------- specifications
\* The dispatch and sender goroutines of connection c, without the lines it
\* receives, and what the network does to its socket.
ConnNext(c) ==
  \/ DispatchReadFail(c) \/ DispatchClose(c) \/ DispatchCloseBody(c) \/ DispatchDelete(c)
  \/ SenderSend(c) \/ SenderClose(c) \/ SenderCloseBody(c)
  \/ Sever(c) \/ ReadDeadline(c)

BroadcastNext ==
  \/ BroadcastBegin
  \/ \E k \in Keys : BroadcastVisit(k)
  \/ BroadcastEnd

\* The heartbeat goroutine of connection c.
HeartbeatNext(c) == HbBeat(c) \/ HbStop(c) \/ HbClose(c) \/ HbCloseBody(c)

\* The node: two ConnectToPeer goroutines, the accept loop, two sockets and
\* the broadcast, while the remote peers send nothing.  The heartbeat
\* goroutines are started and take no step: their steps read and write only
\* their own connection and are part of SpecConn.
Next ==
  \/ \E d \in Dialers :
       DialerCheck(d) \/ DialerDialFail(d) \/ DialerDial(d, Conns) \/ DialerStore(d)
  \/ Accept(Conns)
  \/ AcceptStore
  \/ \E c \in Conns : ConnNext(c)
  \/ BroadcastNext

Spec == Init /\ [][Next]_vars

\* One connection, dialed or accepted, over its whole life: heartbeats, lines
\* received, broadcasts, failures of the socket.
OneConn == {1}

NextConn ==
  \/ DialerCheck("d1") \/ DialerDialFail("d1") \/ DialerDial("d1", OneConn) \/ DialerStore("d1")
  \/ Accept(OneConn)
  \/ AcceptStore
  \/ \E c \in OneConn : ConnNext(c) \/ HeartbeatNext(c) \/ DispatchRecv(c)
  \/ BroadcastNext

SpecConn == Init /\ [][NextConn]_vars

\* The Go scheduler runs every goroutine that can take a step: the steps a
\* goroutine takes by itself (not those that wait for the network or for the
\* ticker) are weakly fair.
Fairness ==
  /\ WF_vars(DialerStore("d1"))
  /\ WF_vars(AcceptStore)
  /\ \A c \in OneConn :
       /\ WF_vars(HbStop(c) \/ HbClose(c) \/ HbCloseBody(c))
       /\ WF_vars(DispatchReadFail(c) \/ DispatchClose(c) \/ DispatchCloseBody(c)
                    \/ DispatchDelete(c))
       /\ WF_vars(SenderSend(c) \/ SenderClose(c) \/ SenderCloseBody(c))

\* The goroutines of one connection from its establishment to their end; the
\* lines the remote sends play no part in it.
NextLive ==
  \/ DialerCheck("d1") \/ DialerDialFail("d1") \/ DialerDial("d1", OneConn) \/ DialerStore("d1")
  \/ Accept(OneConn)
  \/ AcceptStore
  \/ \E c \in OneConn : ConnNext(c) \/ HeartbeatNext(c)
  \/ BroadcastNext

SpecLive == Init /\ [][NextLive]_vars /\ Fairness

\* The message functions, called with each of the arguments in MessageArgs.
InitMsg ==
  /\ NodeInit
  /\ margs \in MessageArgs
  /\ mnew = NoResult
  /\ mline = NoResult
  /\ mback = NoResult

NextMsg == CallNewMessage \/ CallBytes \/ CallMessageFromBytes

SpecMsg == InitMsg /\ [][NextMsg]_vars

\* The accept loop and the listener's queue: peers connect, Accept fails or
\* returns a socket, the socket is registered; connections break and their
\* dispatch goroutines end.
NextAccept ==
  \/ \E ra \in QueueAddrs : Arrive(ra)
  \/ AcceptErr
  \/ AcceptTake
  \/ AcceptRegister
  \/ AcceptStore
  \/ \E c \in Conns :
       \/ Sever(c)
       \/ DispatchReadFail(c) \/ DispatchClose(c) \/ DispatchCloseBody(c) \/ DispatchDelete(c)

SpecAccept == Init /\ [][NextAccept]_vars

\* The ConnectToPeer goroutines, each failure of net.Dial and each sleep a
\* step; connections break and their dispatch goroutines end.
NextDial ==
  \/ \E d \in Dialers :
       \/ DialerCheck(d) \/ DialerDialErr(d) \/ DialerWake(d)
       \/ DialerDial(d, Conns) \/ DialerStore(d)
  \/ \E c \in Conns :
       \/ Sever(c)
       \/ DispatchReadFail(c) \/ DispatchClose(c) \/ DispatchCloseBody(c) \/ DispatchDelete(c)

SpecDial == Init /\ [][NextDial]_vars

\* One connection whose dispatch goroutine routes the lines of the remote peer
\* while SendMessageToPeers sends on it.
NextRoute ==
  \/ DialerCheck("d1") \/ DialerDialFail("d1") \/ DialerDial("d1", OneConn) \/ DialerStore("d1")
  \/ Accept(OneConn)
  \/ AcceptStore
  \/ \E c \in OneConn :
       \/ DispatchDecode(c) \/ DispatchRoute(c)
       \/ DispatchReadFail(c) \/ DispatchClose(c) \/ DispatchCloseBody(c) \/ DispatchDelete(c)
       \/ SenderSend(c) \/ SenderClose(c) \/ SenderCloseBody(c)
       \/ Sever(c)
  \/ BroadcastNext

SpecRoute == Init /\ [][NextRoute]_vars

\* One connection, the appends to its Chat in two steps each: that of the
\* dispatch goroutine and that of the goroutine that sends.
NextRace ==
  \/ DialerCheck("d1") \/ DialerDialFail("d1") \/ DialerDial("d1", OneConn) \/ DialerStore("d1")
  \/ Accept(OneConn)
  \/ AcceptStore
  \/ \E c \in OneConn :
       \/ DispatchDecode(c) \/ DispatchRoute(c)
       \/ DispatchReadFail(c) \/ DispatchClose(c) \/ DispatchCloseBody(c) \/ DispatchDelete(c)
       \/ SenderSentOk(c) \/ SenderAppend(c) \/ SenderSendFails(c)
       \/ SenderClose(c) \/ SenderCloseBody(c)
       \/ Sever(c)
  \/ BroadcastNext

SpecRace == Init /\ [][NextRace]_vars

\* One connection whose dispatch goroutine scans raw lines, decodes them and
\* routes what it decoded, until the read fails or its deadline expires.
NextScan ==
  \/ DialerCheck("d1") \/ DialerDialFail("d1") \/ DialerDial("d1", OneConn) \/ DialerStore("d1")
  \/ Accept(OneConn)
  \/ AcceptStore
  \/ \E c \in OneConn :
       \/ DispatchScanLine(c) \/ DispatchRoute(c)
       \/ DispatchReadFail(c) \/ DispatchClose(c) \/ DispatchCloseBody(c) \/ DispatchDelete(c)
       \/ Sever(c) \/ ReadDeadline(c)

SpecScan == Init /\ [][NextScan]_vars

\* One connection and the writes on its socket, call and return apart.
NextWrite ==
  \/ DialerCheck("d1") \/ DialerDialFail("d1") \/ DialerDial("d1", OneConn) \/ DialerStore("d1")
  \/ Accept(OneConn)
  \/ AcceptStore
  \/ \E c \in OneConn :
       \/ HbWrite(c) \/ HbWritten(c) \/ HbDeadlineFails(c) \/ HbStop(c) \/ HbClose(c) \/ HbCloseBody(c)
       \/ SenderWrite(c) \/ SenderWritten(c) \/ SenderClose(c) \/ SenderCloseBody(c)
       \/ DispatchReadFail(c) \/ DispatchClose(c) \/ DispatchCloseBody(c) \/ DispatchDelete(c)
       \/ Sever(c)
  \/ BroadcastNext

SpecWrite == Init /\ [][NextWrite]_vars

\* One connection and the read deadline of its dispatch task: time passes,
\* lines arrive, the deadline expires; nothing else ends the connection.
NextRead ==
  \/ DialerCheck("d1") \/ DialerDialFail("d1") \/ DialerDial("d1", OneConn) \/ DialerStore("d1")
  \/ Accept(OneConn)
  \/ AcceptStore
  \/ Tick
  \/ \E c \in OneConn :
       \/ DispatchRecv(c) \/ ReadExpire(c)
       \/ DispatchReadFail(c) \/ DispatchClose(c) \/ DispatchCloseBody(c) \/ DispatchDelete(c)

SpecRead == Init /\ [][NextRead]_vars

\* ------------------------------------------------------------------ claims
Registered(c) == \E k \in Keys : Connections[k] = c
Established(c) == sock[c] # "none"

\* C1: the registry never overwrites an entry: a key that maps to a connection
\* keeps mapping to it until the entry is removed, whatever registrations are
\* attempted for that key.  (Stated for the entry of a connection that was
\* opened successfully and whose socket is healthy.)
C1_NeverOverwrites ==
  [][\A k \in Keys :
       ( /\ Connections[k] # None
         /\ infoSent[Connections[k]]
         /\ sock[Connections[k]] = "ok" ) =>
       Connections'[k] \in {None, Connections[k]}]_vars

\* C2: of the ConnectToPeer goroutines started for one address, at most one
\* ends in a registered connection: never are the connections of two of them
\* both registered and open.  (Stated for an address that is its own registry
\* key, where the lookup and the store agree on the key.)
DialRegistered(d) ==
  /\ dlconn[d] # None
  /\ regKey[dlconn[d]] # <<>>
  /\ ~IsClosed[dlconn[d]]

C2_OneDialRegisters ==
  \A d1, d2 \in Dialers :
    ( /\ d1 # d2
      /\ dialAddr[d1] = dialAddr[d2]
      /\ StoreKey(dialAddr[d1]) = LoadKey(dialAddr[d1]) ) =>
    ~(DialRegistered(d1) /\ DialRegistered(d2))

\* C3: every registry operation acts on the canonical key: while a connection c
\* is the entry stored for an address a, the lookup of a (as ConnectToPeer
\* makes it) finds c, for "localhost:P" as for "127.0.0.1:P".  (Stated for a
\* connection that was opened successfully.)
C3_LookupFindsStored ==
  \A c \in Conns, a \in DialAddrs :
    (infoSent[c] /\ regKey[c] = StoreKey(a) /\ Connections[regKey[c]] = c) =>
      Connections[LoadKey(a)] = c

\* C5: once the dispatch task of c has exited, c is closed and no registry
\* entry maps to c.  (Stated for a connection that was opened successfully.)
C5_ExitUnregisters ==
  \A c \in Conns : (dpc[c] = "done" /\ infoSent[c]) => (IsClosed[c] /\ ~Registered(c))

\* C7: a connection whose initial info send failed is closed, is never stored
\* in the registry and gets no dispatch task.
C7_FailedOpenDiscarded ==
  \A c \in Conns :
    (Established(c) /\ ~infoSent[c]) =>
      (IsClosed[c] /\ regKey[c] = <<>> /\ ~Registered(c) /\ dpc[c] = "none")

\* C8: when SendMessageToPeers has returned, Range has visited every key, and
\* on every connection it visited exactly one Send of the text envelope
\* (sender = local address, content = text) has been made and has returned,
\* whether it or any other of the sends failed; no other connection was sent to.
C8_BroadcastCompletes ==
  (bpc = "idle" /\ nbcast > 0) =>
    /\ bcTodo = {}
    /\ \A c \in Conns :
         IF c \in bcVisited
           THEN /\ Len(attempts[c]) = 1
                /\ attempts[c][1].msg = Message("text", LocalAddr, bcText)
                /\ spc[c] = "none"
           ELSE attempts[c] = <<>>

\* A broadcast over two connections has returned; one send failed, one succeeded.
C8_Witness ==
  /\ bpc = "idle"
  /\ bcVisited = {1, 2}
  /\ Len(attempts[1]) = 1
  /\ Len(attempts[2]) = 1
  /\ attempts[1][1].ok # attempts[2][1].ok

\* C9: broadcast("hello") over two registered connections l and b, both opened
\* successfully, b's socket being severed: after the call (and once b's
\* dispatch task has exited), l's log holds exactly the one text envelope
\* "hello", b's log holds none, b is removed from the registry and l is still
\* registered.
C9_BroadcastScenario ==
  \A l, b \in Conns :
    ( /\ l # b
      /\ infoSent[l] /\ infoSent[b]
      /\ bpc = "idle" /\ nbcast = 1 /\ bcText = "hello" /\ bcVisited = {l, b}
      /\ sock[l] = "ok" /\ Len(attempts[l]) = 1 /\ attempts[l][1].ok
      /\ Len(attempts[b]) = 1 /\ ~attempts[b][1].ok
      /\ dpc[b] = "done" ) =>
    ( /\ Chat[l] = <<Message("text", LocalAddr, "hello")>>
      /\ Chat[b] = <<>>
      /\ ~Registered(b)
      /\ Registered(l) )

\* C4: however many calls of c.Close() are made, one after another or at the
\* same time, the body (channel close and socket shutdown) runs at most once,
\* and once any call has returned it has run exactly once and IsClosed is true.
C4_CloseOnce ==
  \A c \in Conns :
    /\ teardowns[c] <= 1
    /\ closeReturned[c] => (teardowns[c] = 1 /\ IsClosed[c] /\ closedCh[c] /\ sock[c] = "closed")

\* The Close calls of a failed broadcast Send, of the heartbeat task and of the
\* dispatch task have all returned.
C4_Witness ==
  \E c \in Conns :
    /\ teardowns[c] = 1
    /\ attempts[c] # <<>> /\ ~attempts[c][1].ok
    /\ hbpc[c] = "done" /\ \E i \in DOMAIN sent[c] : sent[c][i] = Returned("heartbeat", FALSE)
    /\ dpc[c] = "done"

\* C6: a Send whose write failed returns an error and leaves the connection
\* closed; it appends nothing to Chat (the text envelopes of the local peer in
\* Chat are those of the Sends that returned nil); and every Send that returns
\* after a failed one has failed too.
SentOk(c) == {i \in DOMAIN sent[c] : sent[c][i] = Returned("text", TRUE)}
ChatSent(c) == {i \in DOMAIN Chat[c] : Chat[c][i].Sender = LocalAddr}

C6_SendFailureTerminal ==
  \A c \in Conns :
    /\ (\E i \in DOMAIN sent[c] : ~sent[c][i][2]) => IsClosed[c]
    /\ Cardinality(ChatSent(c)) = Cardinality(SentOk(c))
    /\ \A i, j \in DOMAIN sent[c] : (i < j /\ ~sent[c][i][2]) => ~sent[c][j][2]

\* A heartbeat Send failed, and the broadcast's Send after it failed as well
\* and left Chat empty.
C6_Witness ==
  \E c \in Conns :
    /\ sent[c] = <<Returned("heartbeat", FALSE), Returned("text", FALSE)>>
    /\ Chat[c] = <<>>
    /\ IsClosed[c]

\* C10: LastActive is changed, after NewConnection, only by a heartbeat whose
\* Send succeeded, which sets it to the (later) time of that send; such a
\* heartbeat leaves the connection open and the task running; and a registered
\* open connection whose socket stays healthy stays open and registered.
HeartbeatOf(c) ==
  /\ hbpc[c] = "wait"
  /\ now' # now
  /\ (sent'[c] # sent[c] \/ hbpc'[c] # hbpc[c])

C11_ExpiryOnlyWhenQuiet ==
  \A c \in Conns : sock[c] = "rdtimeout" => quietFor[c] >= ReadTicks

C11_ReadDeadline ==
  /\ C11_ExpiryOnlyWhenQuiet
  /\ \A c \in Conns :
       (dpc[c] = "done" /\ infoSent[c] /\ armedFor[c] >= ReadTicks) =>
         (IsClosed[c] /\ ~Registered(c))

\* C12: once a connection is closed, by whatever path, its heartbeat task and
\* its dispatch task both terminate, and no heartbeat is sent successfully on
\* it any more.
C12_ClosedTasksEnd ==
  /\ \A c \in Conns : IsClosed[c] ~> (hbpc[c] = "done" /\ dpc[c] = "done")
  /\ [][\A c \in Conns :
          IsClosed[c] =>
            ~(Len(sent'[c]) > Len(sent[c])
                /\ sent'[c][Len(sent'[c])] = Returned("heartbeat", TRUE))]_vars

\* A connection that had sent a heartbeat was closed by the failed Send of a
\* broadcast; its heartbeat task stopped on the closed channel and its dispatch
\* task has exited.
C12_Witness ==
  \E c \in Conns :
    /\ IsClosed[c]
    /\ hbpc[c] = "done" /\ dpc[c] = "done"
    /\ sent[c] = <<Returned("heartbeat", TRUE), Returned("text", FALSE)>>

\* C13: the writes on one connection's socket are serialized: never are two
\* goroutines inside c.Conn.Write of the same connection at once (the heartbeat
\* task's Send and the Send of a broadcast).
C13_WritesSerialized ==
  \A c \in Conns : Cardinality(inWrite[c]) <= 1

\* C14: a failure on one connection ends only that connection: no step closes
\* a connection whose own socket is healthy, and the exit of the dispatch task
\* of a connection o (its Delete) never removes the registry entry of another
\* connection c that is still open.  (Stated for connections that were opened
\* successfully.)
C14_FailureStaysLocal ==
  [][\A c \in Conns :
       /\ (sock[c] = "ok" /\ ~IsClosed[c]) => ~IsClosed'[c]
       /\ \A o \in Conns \ {c}, k \in Keys :
            ( /\ dpc[o] = "delete" /\ dpc'[o] = "done"
              /\ infoSent[o] /\ infoSent[c]
              /\ Connections[k] = c
              /\ ~IsClosed[c] ) =>
            Connections'[k] = c]_vars

\* ---------------------------------------------------------------- claim C15
KindStrs == {Str(k) : k \in Kinds}

\* C15: NewMessage succeeds exactly when the type is one of info, heartbeat,
\* text, file, log and, for file, a filename is given; it fails otherwise.  A
\* file message it returns has a non-empty filename, a message of another kind
\* has none.
C15_ConstructContract ==
  mnew # NoResult =>
    /\ (mnew.err = NoError) <=>
         (margs.typeFormat \in KindStrs /\
          (margs.typeFormat = Str("file") => margs.filename # Nil))
    /\ mnew.err = NoError =>
         /\ mnew.msg.Type = margs.typeFormat
         /\ (mnew.msg.Type = Str("file")) <=> (mnew.msg.Filename # Empty)

\* ---------------------------------------------------------------- claim C16
\* The fields of m are a valid combination: a kind of the protocol, and a file
\* message names its file.
RespectsInvariant(m) ==
  /\ m.Type \in KindStrs
  /\ m.Type = Str("file") => m.Filename # Empty

\* C16: for every Message whose fields respect the file-implies-filename
\* invariant, Bytes does not fail and MessageFromBytes of its line returns a
\* Message equal to it in Type, Sender, Content and Filename.
C16_RoundTrip ==
  LET m == Literal(margs.typeFormat, margs.sender, margs.content, margs.filename) IN
    /\ (mline # NoResult /\ RespectsInvariant(m)) => mline.err = NoError
    /\ (mback # NoResult /\ RespectsInvariant(m)) =>
         (mback.err = NoError /\ mback.msg = m)

\* ---------------------------------------------------------------- claim C17
\* C17: NewConnection starts the heartbeat goroutine only when the initial
\* info send succeeded: a connection whose initial send failed never has a
\* heartbeat goroutine, one whose send succeeded has been given one.
C17_HeartbeatOnlyAfterInfo ==
  \A c \in Conns :
    Established(c) => ((hbpc[c] # "none") <=> infoSent[c])

\* ---------------------------------------------------------------- claim C18
\* C18: the accept loop hands every accepted socket to the registration
\* without waiting for it: while a socket waits in the listener's queue the
\* loop is in Listener.Accept (after an accept error as well), never inside the
\* registration of an earlier socket.
C18_AcceptNotDelayed ==
  backlog # {} => apc = "accept"

\* ---------------------------------------------------------------- claim C19
\* C19: ConnectToPeer retries a failing dial for ever and has no terminal
\* failure: a failed net.Dial only leads to the sleep and from there back to
\* the lookup and the next dial; the goroutine ends only when it finds the
\* address connected or after its dial succeeded, and then the new connection
\* is stored under (the stored form of) the dialed address and has a dispatch
\* goroutine.
C19_RetryUntilConnected ==
  [][\A d \in Dialers :
       /\ (dlpc[d] = "dial" /\ dlpc'[d] # "dial") => dlpc'[d] \in {"sleep", "store"}
       /\ (dlpc[d] = "sleep" /\ dlpc'[d] # "sleep") => dlpc'[d] = "check"
       /\ (dlpc[d] = "check" /\ dlpc'[d] # "check") =>
            IF Connections[LoadKey(dialAddr[d])] # None
              THEN dlpc'[d] = "done" ELSE dlpc'[d] = "dial"
       /\ (dlpc[d] = "store" /\ dlpc'[d] # "store") =>
            /\ dlpc'[d] = "done"
            /\ Connections'[StoreKey(dialAddr[d])] = dlconn[d]
            /\ dpc'[dlconn[d]] = "read"
       /\ (dlpc[d] # "done" /\ dlpc'[d] = "done") => dlpc[d] \in {"check", "store"}]_vars

\* A goroutine whose dial failed MaxDialFails times, then succeeded: its
\* connection is in the registry and has its dispatch goroutine.
C19_Witness ==
  \E d \in Dialers :
    /\ dialFails[d] = MaxDialFails
    /\ dlpc[d] = "done"
    /\ dlconn[d] # None
    /\ Connections[StoreKey(dialAddr[d])] = dlconn[d]
    /\ dpc[dlconn[d]] = "read"

\* ---------------------------------------------------------------- claim C20
\* A step in which the dispatch goroutine of c routes the envelope dline[c].
Routes(c) == dpc[c] = "route" /\ dpc'[c] = "read"

\* C20: handleConnection routes each decoded envelope by its type and changes
\* nothing else: info sets the connection's Username to the sender and leaves
\* both logs as they are; heartbeat changes nothing; text appends the envelope
\* to that connection's Chat and changes no other log or name; log appends the
\* envelope to the peer's log and changes no Chat.
C20_RoutesByKind ==
  [][\A c \in Conns :
       Routes(c) =>
         LET msg == dline[c] IN
           /\ msg.Type = "info" =>
                /\ Username' = [Username EXCEPT ![c] = msg.Sender]
                /\ Chat' = Chat /\ plog' = plog
           /\ msg.Type = "heartbeat" =>
                (Username' = Username /\ Chat' = Chat /\ plog' = plog)
           /\ msg.Type = "text" =>
                /\ Chat' = [Chat EXCEPT ![c] = Append(Chat[c], msg)]
                /\ Username' = Username /\ plog' = plog
           /\ msg.Type = "log" =>
                /\ plog' = Append(plog, msg)
                /\ Chat' = Chat /\ Username' = Username]_vars

\* ---------------------------------------------------------------- claim C21
\* The goroutines that are inside an assignment to c.Chat: they have read
\* c.Chat for their append and have not stored the result yet.
ChatWriters(c) ==
  (IF dpc[c] = "route" /\ dline[c].Type = "text" THEN {"handleConnection"} ELSE {})
    \cup (IF spc[c] = "append" THEN {"Send"} ELSE {})

\* C21: only the registry is written by more than one goroutine: a
\* connection's Chat is never being written by two goroutines at the same time
\* (the dispatch goroutine and a goroutine that sends).
C21_OneWriterAtATime ==
  \A c \in Conns : Cardinality(ChatWriters(c)) <= 1

\* ---------------------------------------------------------------- claim C22
IsPrefix(s, t) == Len(s) <= Len(t) /\ \A i \in DOMAIN s : t[i] = s[i]

\* A step in which a Send on c ends its append to c.Chat.
SendAppends(c) == spc[c] = "append" /\ spc'[c] # "append"

\* C22: a connection's Chat is append-only and loses nothing: no step changes
\* or removes an entry; the append of a successful Send of a text envelope and
\* the append of a received text envelope each add exactly that envelope at
\* the end; and only text envelopes are ever in it.
C22_ChatAppendOnly ==
  [][\A c \in Conns :
       /\ IsPrefix(Chat[c], Chat'[c])
       /\ SendAppends(c) => Chat'[c] = Append(Chat[c], TextMessage(bcText))
       /\ (Routes(c) /\ dline[c].Type = "text") => Chat'[c] = Append(Chat[c], dline[c])
       /\ \A i \in DOMAIN Chat'[c] : Chat'[c][i].Type = "text"]_vars

\* ---------------------------------------------------------------- claim C23
\* A step in which the dispatch goroutine of c has scanned a line.
Scans(c) == Len(scanned'[c]) = Len(scanned[c]) + 1
Undecodable(line) == MessageFromString(line).err # NoError
TextLine == JSON(MessageStruct(Str("text"), RemoteName, Str("hi"), Empty))

HandledKinds == {"info", "heartbeat", "text", "log"}

\* C24: no envelope is dropped silently by the switch: a line whose type the
\* dispatch has no case for fails to decode, so every Message that reaches the
\* switch has a type with a case.
C24_NoSilentDrop ==
  \A c \in Conns : dpc[c] = "route" => dline[c].Type \in HandledKinds

\* ---------------------------------------------------------------- claim C25
\* The lifecycle of a dialed address (by its registry key), read off the
\* ConnectToPeer goroutines started for it and the connections they opened.
DialKeys == {StoreKey(dialAddr[d]) : d \in Dialers}
DialersOf(k) == {d \in Dialers : StoreKey(dialAddr[d]) = k}
ConnsOf(k) == {dlconn[d] : d \in DialersOf(k)} \ {None}
Dialing(d) == dlconn[d] = None /\ (dlpc[d] \in {"dial", "sleep"} \/ dialFails[d] > 0)

Life(k) ==
  IF \E c \in ConnsOf(k) : ~IsClosed[c] THEN "CONNECTED"
  ELSE IF ConnsOf(k) # {} THEN "CLOSED"
  ELSE IF \E d \in DialersOf(k) : Dialing(d) THEN "DIALING"
  ELSE "UNCONNECTED"

LifeSteps ==
  {<<"UNCONNECTED", "DIALING">>, <<"DIALING", "DIALING">>, <<"DIALING", "CONNECTED">>,
   <<"CONNECTED", "CLOSED">>}

\* C25: the lifecycle of a dialed address takes only the steps UNCONNECTED to
\* DIALING, DIALING to DIALING, DIALING to CONNECTED and CONNECTED to CLOSED;
\* CLOSED is final: IsClosed of a connection never returns to false, and once
\* the connection to the address has closed no ConnectToPeer goroutine dials
\* the address.  (Stated for connections that were opened successfully and
\* for an address that is its own registry key.)
C25_Lifecycle ==
  [][/\ \A c \in Conns : IsClosed[c] => IsClosed'[c]
     /\ \A k \in DialKeys :
          ( /\ \A c \in ConnsOf(k)' : infoSent'[c]
            /\ \A d \in DialersOf(k) : LoadKey(dialAddr[d]) = k ) =>
            /\ Life(k)' # Life(k) => <<Life(k), Life(k)'>> \in LifeSteps
            /\ Life(k) = "CLOSED" =>
                 \A d \in DialersOf(k) :
                   /\ dlconn'[d] = dlconn[d]
                   /\ dlpc'[d] = "dial" => dlpc[d] = "dial"]_vars
====
